---- MODULE Spec2Model ----
(***************************************************************************)
(* mcp-http-proxy (index.js): a stdio <-> HTTP bridge for JSON-RPC.        *)
(*                                                                         *)
(* Texts on the wire (stdin lines, POST bodies, response chunks, stdout)   *)
(* are sequences of bytes 0..255.  JavaScript strings are sequences of     *)
(* code points.  JSON values are tagged records:                           *)
(*   [t |-> "undefined"]  [t |-> "null"]  [t |-> "bool", b |-> ...]        *)
(*   [t |-> "num", n |-> Int]        [t |-> "str", s |-> code points]      *)
(*   [t |-> "arr", a |-> <<values>>]                                       *)
(*   [t |-> "obj", k |-> <<keys>>, v |-> <<values>>]  (own properties, in  *)
(*   insertion order)                                                      *)
(* Scope of the library operators: JSON numbers are integers, JSON strings *)
(* carry no \uXXXX escapes.                                                *)
(***************************************************************************)
EXTENDS Integers, Sequences, FiniteSets, TLC

VARIABLES
    input,    \* the lines readline has delivered so far (bytes, without the terminator)
    posts,    \* the POSTs issued so far: [line, body, contentLength]
    reqs,     \* one record per POST: the closure of the 'line' callback (request, data),
              \* where the exchange stands (st, path; afterClose: 'end' came when
              \* stdin had closed) and the response on the wire (body as the server
              \* sent it, chunks as the network cut it, pending: those not yet delivered)
    stdout,   \* the writes to process.stdout, in order: [req, bytes]
    stderr,   \* the writes to process.stderr, in order: [kind, req, text]
    rlOpen,   \* the readline interface is open (stdin has not ended)
    proc      \* [st |-> "running"], or [st |-> "exited" or "crashed", code |-> exit status]
              \* (and a field signal when a signal handler ended it)

vars == <<input, posts, reqs, stdout, stderr, rlOpen, proc>>

-----------------------------------------------------------------------------
(* String literals of index.js, as code points.                            *)

S_unknown       == <<117, 110, 107, 110, 111, 119, 110>>
S_prompts_list  == <<112, 114, 111, 109, 112, 116, 115, 47, 108, 105, 115, 116>>
S_resources_list == <<114, 101, 115, 111, 117, 114, 99, 101, 115, 47, 108, 105, 115, 116>>
S_jsonrpc       == <<106, 115, 111, 110, 114, 112, 99>>
S_2_0           == <<50, 46, 48>>
S_id            == <<105, 100>>
S_result        == <<114, 101, 115, 117, 108, 116>>
S_prompts       == <<112, 114, 111, 109, 112, 116, 115>>
S_resources     == <<114, 101, 115, 111, 117, 114, 99, 101, 115>>
S_error         == <<101, 114, 114, 111, 114>>
S_code          == <<99, 111, 100, 101>>
S_method        == <<109, 101, 116, 104, 111, 100>>
S_toString      == <<116, 111, 83, 116, 114, 105, 110, 103>>

-----------------------------------------------------------------------------
(* JavaScript values.                                                      *)

Undefined  == [t |-> "undefined"]
JNull      == [t |-> "null"]
JBool(b)   == [t |-> "bool", b |-> b]
JNum(n)    == [t |-> "num", n |-> n]
JStr(s)    == [t |-> "str", s |-> s]
JArr(a)    == [t |-> "arr", a |-> a]
JObj(k, v) == [t |-> "obj", k |-> k, v |-> v]

\* ToBoolean: what `x ? a : b` and `x && y` test.
ToBoolean(x) ==
    CASE x.t = "undefined" -> FALSE
      [] x.t = "null"      -> FALSE
      [] x.t = "bool"      -> x.b
      [] x.t = "num"       -> x.n # 0
      [] x.t = "str"       -> x.s # <<>>
      [] OTHER             -> TRUE

\* x.name throws a TypeError when x is null or undefined.
GetThrows(x) == x.t \in {"undefined", "null"}

\* x.name for a name that no prototype defines (error, code, method, id):
\* the own property of an object, undefined on anything else.
Get(x, name) ==
    IF x.t = "obj" /\ \E j \in 1..Len(x.k) : x.k[j] = name
    THEN x.v[CHOOSE j \in 1..Len(x.k) : x.k[j] = name]
    ELSE Undefined

\* JSON.parse's property definition: a repeated key keeps its place and takes
\* the later value.
ObjPut(o, name, val) ==
    IF \E j \in 1..Len(o.k) : o.k[j] = name
    THEN JObj(o.k, [o.v EXCEPT ![CHOOSE j \in 1..Len(o.k) : o.k[j] = name] = val])
    ELSE JObj(Append(o.k, name), Append(o.v, val))

\* a === b on values JSON.parse can produce (arrays and objects compare by
\* identity, and no two parses share one).
StrictEq(a, b) ==
    /\ a.t = b.t
    /\ CASE a.t = "num"  -> a.n = b.n
         [] a.t = "str"  -> a.s = b.s
         [] a.t = "bool" -> a.b = b.b
         [] a.t \in {"arr", "obj"} -> FALSE
         [] OTHER -> TRUE

-----------------------------------------------------------------------------
(* UTF-8.                                                                  *)

REPLACEMENT == <<65533>>

\* How many continuation bytes the lead byte c announces; -1: c leads nothing.
Utf8Need(c) ==
    IF c < 128 THEN 0
    ELSE IF c >= 194 /\ c <= 223 THEN 1
    ELSE IF c >= 224 /\ c <= 239 THEN 2
    ELSE IF c >= 240 /\ c <= 244 THEN 3
    ELSE -1

\* The range of the byte that may follow lead byte c.
Utf8SecondLo(c) == IF c = 224 THEN 160 ELSE IF c = 240 THEN 144 ELSE 128
Utf8SecondHi(c) == IF c = 237 THEN 159 ELSE IF c = 244 THEN 143 ELSE 191

\* The number of well-formed continuation bytes present after position i.
RECURSIVE Utf8Have(_, _, _, _)
Utf8Have(b, i, j, need) ==
    IF j > need \/ i + j > Len(b) THEN j - 1
    ELSE LET lo == IF j = 1 THEN Utf8SecondLo(b[i]) ELSE 128
             hi == IF j = 1 THEN Utf8SecondHi(b[i]) ELSE 191
         IN IF b[i + j] >= lo /\ b[i + j] <= hi
            THEN Utf8Have(b, i, j + 1, need)
            ELSE j - 1

Utf8Scalar(b, i, need) ==
    CASE need = 0 -> b[i]
      [] need = 1 -> (b[i] - 192) * 64 + (b[i + 1] - 128)
      [] need = 2 -> (b[i] - 224) * 4096 + (b[i + 1] - 128) * 64 + (b[i + 2] - 128)
      [] need = 3 -> (b[i] - 240) * 262144 + (b[i + 1] - 128) * 4096
                     + (b[i + 2] - 128) * 64 + (b[i + 3] - 128)

\* buffer.toString('utf8'): every ill-formed or truncated sequence becomes one
\* U+FFFD; decoding starts afresh at the first byte of the buffer.
RECURSIVE Utf8DecodeFrom(_, _)
Utf8DecodeFrom(b, i) ==
    IF i > Len(b) THEN <<>>
    ELSE LET need == Utf8Need(b[i])
             have == IF need <= 0 THEN 0 ELSE Utf8Have(b, i, 1, need)
         IN IF need >= 0 /\ have = need
            THEN <<Utf8Scalar(b, i, need)>> \o Utf8DecodeFrom(b, i + 1 + need)
            ELSE REPLACEMENT \o Utf8DecodeFrom(b, i + 1 + have)

Utf8Decode(b) == Utf8DecodeFrom(b, 1)

Utf8EncodeOne(c) ==
    IF c < 128 THEN <<c>>
    ELSE IF c < 2048 THEN <<192 + (c \div 64), 128 + (c % 64)>>
    ELSE IF c < 65536
         THEN <<224 + (c \div 4096), 128 + ((c \div 64) % 64), 128 + (c % 64)>>
    ELSE <<240 + (c \div 262144), 128 + ((c \div 4096) % 64),
           128 + ((c \div 64) % 64), 128 + (c % 64)>>

\* The bytes a stream writes for a string (Buffer.from(s, 'utf8')).
RECURSIVE Utf8Encode(_)
Utf8Encode(s) ==
    IF s = <<>> THEN <<>> ELSE Utf8EncodeOne(Head(s)) \o Utf8Encode(Tail(s))

\* Buffer.byteLength(s)
ByteLength(s) == Len(Utf8Encode(s))

-----------------------------------------------------------------------------
(* JSON.parse, by recursive descent over the code points of the text.      *)
(* A parse result is [ok, v, i]: whether a value was read, the value, and  *)
(* the position after it.                                                  *)

ParseFail == [ok |-> FALSE, v |-> Undefined, i |-> 0]
ParseOk(v, i) == [ok |-> TRUE, v |-> v, i |-> i]

IsDigit(c) == c >= 48 /\ c <= 57

RECURSIVE SkipWs(_, _)
SkipWs(s, i) ==
    IF i <= Len(s) /\ s[i] \in {32, 9, 10, 13} THEN SkipWs(s, i + 1) ELSE i

Matches(s, i, lit) ==
    i + Len(lit) - 1 <= Len(s) /\ SubSeq(s, i, i + Len(lit) - 1) = lit

\* The character an escape \c stands for; -1: no such escape.
Unescape(c) ==
    CASE c = 34 -> 34 [] c = 92 -> 92 [] c = 47 -> 47 [] c = 98 -> 8
      [] c = 102 -> 12 [] c = 110 -> 10 [] c = 114 -> 13 [] c = 116 -> 9
      [] OTHER -> -1

\* i is the position after the opening quote.
RECURSIVE ParseString(_, _, _)
ParseString(s, i, acc) ==
    IF i > Len(s) THEN ParseFail
    ELSE IF s[i] = 34 THEN ParseOk(JStr(acc), i + 1)
    ELSE IF s[i] < 32 THEN ParseFail
    ELSE IF s[i] = 92
         THEN IF i + 1 > Len(s) \/ Unescape(s[i + 1]) < 0 THEN ParseFail
              ELSE ParseString(s, i + 2, Append(acc, Unescape(s[i + 1])))
    ELSE ParseString(s, i + 1, Append(acc, s[i]))

RECURSIVE ParseDigits(_, _, _)
ParseDigits(s, i, acc) ==
    IF i <= Len(s) /\ IsDigit(s[i])
    THEN ParseDigits(s, i + 1, acc * 10 + (s[i] - 48))
    ELSE [n |-> acc, i |-> i]

\* -?(0|[1-9][0-9]*), not followed by a fraction or an exponent.
ParseNumber(s, i) ==
    LET neg == s[i] = 45
        d   == IF neg THEN i + 1 ELSE i
    IN IF d > Len(s) \/ ~IsDigit(s[d]) THEN ParseFail
       ELSE IF s[d] = 48 /\ d + 1 <= Len(s) /\ IsDigit(s[d + 1]) THEN ParseFail
       ELSE LET r == ParseDigits(s, d, 0)
            IN IF r.i <= Len(s) /\ s[r.i] \in {46, 69, 101} THEN ParseFail
               ELSE ParseOk(JNum(IF neg THEN 0 - r.n ELSE r.n), r.i)

RECURSIVE ParseValue(_, _)
RECURSIVE ParseElements(_, _, _)
RECURSIVE ParseMembers(_, _, _)

ParseValue(s, i0) ==
    LET i == SkipWs(s, i0)
    IN IF i > Len(s) THEN ParseFail
       ELSE CASE s[i] = 123 ->
                   LET j == SkipWs(s, i + 1)
                   IN IF j <= Len(s) /\ s[j] = 125
                      THEN ParseOk(JObj(<<>>, <<>>), j + 1)
                      ELSE ParseMembers(s, j, JObj(<<>>, <<>>))
              [] s[i] = 91 ->
                   LET j == SkipWs(s, i + 1)
                   IN IF j <= Len(s) /\ s[j] = 93
                      THEN ParseOk(JArr(<<>>), j + 1)
                      ELSE ParseElements(s, j, <<>>)
              [] s[i] = 34 -> ParseString(s, i + 1, <<>>)
              [] s[i] = 45 \/ IsDigit(s[i]) -> ParseNumber(s, i)
              [] Matches(s, i, <<116, 114, 117, 101>>) -> ParseOk(JBool(TRUE), i + 4)
              [] Matches(s, i, <<102, 97, 108, 115, 101>>) -> ParseOk(JBool(FALSE), i + 5)
              [] Matches(s, i, <<110, 117, 108, 108>>) -> ParseOk(JNull, i + 4)
              [] OTHER -> ParseFail

\* i is the position of the next element.
ParseElements(s, i, acc) ==
    LET e == ParseValue(s, i)
    IN IF ~e.ok THEN ParseFail
       ELSE LET d == SkipWs(s, e.i)
            IN IF d > Len(s) THEN ParseFail
               ELSE IF s[d] = 93 THEN ParseOk(JArr(Append(acc, e.v)), d + 1)
               ELSE IF s[d] = 44 THEN ParseElements(s, d + 1, Append(acc, e.v))
               ELSE ParseFail

\* i is the position of the next member's key.
ParseMembers(s, i, o) ==
    IF i > Len(s) \/ s[i] # 34 THEN ParseFail
    ELSE LET key == ParseString(s, i + 1, <<>>)
         IN IF ~key.ok THEN ParseFail
            ELSE LET c == SkipWs(s, key.i)
                 IN IF c > Len(s) \/ s[c] # 58 THEN ParseFail
                    ELSE LET val == ParseValue(s, c + 1)
                         IN IF ~val.ok THEN ParseFail
                            ELSE LET d == SkipWs(s, val.i)
                                 IN IF d > Len(s) THEN ParseFail
                                    ELSE IF s[d] = 125
                                         THEN ParseOk(ObjPut(o, key.v.s, val.v), d + 1)
                                    ELSE IF s[d] = 44
                                         THEN ParseMembers(s, SkipWs(s, d + 1),
                                                           ObjPut(o, key.v.s, val.v))
                                    ELSE ParseFail

\* JSON.parse(s): [ok |-> TRUE, v |-> the value], or ok = FALSE when it throws
\* a SyntaxError.
JSONparse(s) ==
    LET r == ParseValue(s, 1)
    IN IF r.ok /\ SkipWs(s, r.i) > Len(s)
       THEN [ok |-> TRUE, v |-> r.v]
       ELSE [ok |-> FALSE, v |-> Undefined]

-----------------------------------------------------------------------------
(* JSON.stringify.                                                         *)

RECURSIVE NatToStr(_)
NatToStr(n) ==
    IF n < 10 THEN <<48 + n>> ELSE Append(NatToStr(n \div 10), 48 + (n % 10))

NumToStr(n) == IF n < 0 THEN <<45>> \o NatToStr(0 - n) ELSE NatToStr(n)

HexDigit(d) == IF d < 10 THEN 48 + d ELSE 87 + d

QuoteChar(c) ==
    CASE c = 34 -> <<92, 34>> [] c = 92 -> <<92, 92>> [] c = 8 -> <<92, 98>>
      [] c = 12 -> <<92, 102>> [] c = 10 -> <<92, 110>> [] c = 13 -> <<92, 114>>
      [] c = 9 -> <<92, 116>>
      [] c < 32 /\ c \notin {8, 9, 10, 12, 13} ->
             <<92, 117, 48, 48, HexDigit(c \div 16), HexDigit(c % 16)>>
      [] OTHER -> <<c>>

RECURSIVE QuoteChars(_)
QuoteChars(s) == IF s = <<>> THEN <<>> ELSE QuoteChar(Head(s)) \o QuoteChars(Tail(s))

Quote(s) == <<34>> \o QuoteChars(s) \o <<34>>

RECURSIVE SerializeValue(_)
RECURSIVE SerializeElements(_, _)
RECURSIVE SerializeMembers(_, _, _)

SerializeValue(x) ==
    CASE x.t = "null" -> <<110, 117, 108, 108>>
      [] x.t = "bool" -> IF x.b THEN <<116, 114, 117, 101>> ELSE <<102, 97, 108, 115, 101>>
      [] x.t = "num"  -> NumToStr(x.n)
      [] x.t = "str"  -> Quote(x.s)
      [] x.t = "arr"  -> <<91>> \o SerializeElements(x.a, 1) \o <<93>>
      [] x.t = "obj"  -> <<123>> \o SerializeMembers(x, 1, TRUE) \o <<125>>

\* An undefined element is written null.
SerializeElements(a, j) ==
    IF j > Len(a) THEN <<>>
    ELSE (IF j > 1 THEN <<44>> ELSE <<>>)
         \o (IF a[j].t = "undefined" THEN <<110, 117, 108, 108>> ELSE SerializeValue(a[j]))
         \o SerializeElements(a, j + 1)

\* A property whose value is undefined is left out.
SerializeMembers(o, j, first) ==
    IF j > Len(o.k) THEN <<>>
    ELSE IF o.v[j].t = "undefined" THEN SerializeMembers(o, j + 1, first)
    ELSE (IF first THEN <<>> ELSE <<44>>)
         \o Quote(o.k[j]) \o <<58>> \o SerializeValue(o.v[j])
         \o SerializeMembers(o, j + 1, FALSE)

\* JSON.stringify(x) for an object, array or primitive x other than undefined.
JSONstringify(x) == SerializeValue(x)

-----------------------------------------------------------------------------
(* String conversion in a template literal: `${x}`.                        *)

HasOwn(x, name) == x.t = "obj" /\ \E j \in 1..Len(x.k) : x.k[j] = name

\* ToPrimitive throws a TypeError on an object whose own toString property
\* shadows Object.prototype.toString (a parsed value is never callable, and
\* valueOf, inherited or own, yields no primitive); Array.prototype.toString
\* joins the conversions of the elements.
RECURSIVE ToStringThrows(_)
ToStringThrows(x) ==
    CASE x.t = "obj" -> HasOwn(x, S_toString)
      [] x.t = "arr" -> \E j \in 1..Len(x.a) : ToStringThrows(x.a[j])
      [] OTHER -> FALSE

RECURSIVE ToStringJS(_)
RECURSIVE JoinJS(_, _)
ToStringJS(x) ==
    CASE x.t = "undefined" -> <<117, 110, 100, 101, 102, 105, 110, 101, 100>>
      [] x.t = "null" -> <<110, 117, 108, 108>>
      [] x.t = "bool" -> IF x.b THEN <<116, 114, 117, 101>> ELSE <<102, 97, 108, 115, 101>>
      [] x.t = "num"  -> NumToStr(x.n)
      [] x.t = "str"  -> x.s
      [] x.t = "arr"  -> JoinJS(x.a, 1)
      [] x.t = "obj"  -> <<91, 111, 98, 106, 101, 99, 116, 32, 79, 98, 106, 101, 99, 116, 93>>

JoinJS(a, j) ==
    IF j > Len(a) THEN <<>>
    ELSE (IF j > 1 THEN <<44>> ELSE <<>>)
         \o (IF a[j].t \in {"undefined", "null"} THEN <<>> ELSE ToStringJS(a[j]))
         \o JoinJS(a, j + 1)

-----------------------------------------------------------------------------
(* String.prototype.trim                                                   *)

WhiteSpace ==
    {9, 10, 11, 12, 13, 32, 160, 5760, 8232, 8233, 8239, 8287, 12288, 65279}
        \cup (8192..8202)

\* !line: the test without the trim.
IsBlankNoTrim(line) == line = <<>>

\* !line.trim()
IsBlank(line) == \A j \in 1..Len(line) : line[j] \in WhiteSpace

-----------------------------------------------------------------------------
(* The proxy.                                                              *)

\* The JSON-RPC "Method not found" code the 'end' handler looks for.
MethodNotFound == -32601

\* console.log(s): one write of s and a line feed to process.stdout.
ConsoleLog(s) == Utf8Encode(s) \o <<10>>

\* The same response with id: null, as the server's own error responses have it.
ConvertedIdNull(requestId, listName) ==
    JSONstringify(JObj(<<S_jsonrpc, S_id, S_result>>,
                       <<JStr(S_2_0), JNull, JObj(<<listName>>, <<JArr(<<>>)>>)>>))

\* JSON.stringify({ jsonrpc: '2.0', id: requestId, result: { <listName>: [] } })
Converted(requestId, listName) ==
    JSONstringify(JObj(<<S_jsonrpc, S_id, S_result>>,
                       <<JStr(S_2_0), requestId, JObj(<<listName>>, <<JArr(<<>>)>>)>>))

\* response.error && response.error.code === -32601
IsMethodNotFound(response) ==
    /\ ToBoolean(Get(response, S_error))
    /\ StrictEq(Get(Get(response, S_error), S_code), JNum(MethodNotFound))

\* The try block with the two conversions tried before the drop.
TryBlockSubstituteFirst(request, data) ==
    LET parsed    == JSONparse(data)
        response  == parsed.v
        method    == IF ToBoolean(request) THEN Get(request, S_method) ELSE JStr(S_unknown)
        requestId == IF ToBoolean(request) THEN Get(request, S_id) ELSE Undefined
        thrown    == [exit |-> "throw", out |-> <<>>, err |-> <<>>, path |-> "none"]
    IN IF ~parsed.ok THEN thrown
       ELSE IF GetThrows(response) THEN thrown
       ELSE IF IsMethodNotFound(response) /\ ToBoolean(request)
                 /\ StrictEq(method, JStr(S_prompts_list))
            THEN [exit |-> "return", out |-> <<Converted(requestId, S_prompts)>>,
                  err |-> <<[kind |-> "converted", text |-> S_prompts_list]>>,
                  path |-> "substitute"]
       ELSE IF IsMethodNotFound(response) /\ ToBoolean(request)
                 /\ StrictEq(method, JStr(S_resources_list))
            THEN [exit |-> "return", out |-> <<Converted(requestId, S_resources)>>,
                  err |-> <<[kind |-> "converted", text |-> S_resources_list]>>,
                  path |-> "substitute"]
       ELSE IF IsMethodNotFound(response) /\ StrictEq(requestId, Undefined)
            THEN IF ToStringThrows(method) THEN thrown
                 ELSE [exit |-> "return", out |-> <<>>,
                       err |-> <<[kind |-> "dropped", text |-> ToStringJS(method)]>>,
                       path |-> "drop"]
       ELSE [exit |-> "fallthrough", out |-> <<>>, err |-> <<>>, path |-> "none"]

\* The try block of the 'end' handler.  exit is how control leaves it: "return"
\* (the handler is over), "fallthrough" (on to the statement after the
\* try/catch) or "throw" (into the catch clause); out are the console.log
\* arguments and err the stderr writes made on the way; path names the return.
TryBlock(request, data) ==
    LET parsed    == JSONparse(data)
        response  == parsed.v
        method    == IF ToBoolean(request) THEN Get(request, S_method) ELSE JStr(S_unknown)
        requestId == IF ToBoolean(request) THEN Get(request, S_id) ELSE Undefined
        thrown    == [exit |-> "throw", out |-> <<>>, err |-> <<>>, path |-> "none"]
    IN IF ~parsed.ok THEN thrown
       ELSE IF GetThrows(response) THEN thrown
       ELSE IF IsMethodNotFound(response) /\ StrictEq(requestId, Undefined)
            THEN IF ToStringThrows(method) THEN thrown
                 ELSE [exit |-> "return", out |-> <<>>,
                       err |-> <<[kind |-> "dropped", text |-> ToStringJS(method)]>>,
                       path |-> "drop"]
       ELSE IF IsMethodNotFound(response) /\ ToBoolean(request)
                 /\ StrictEq(method, JStr(S_prompts_list))
            THEN [exit |-> "return", out |-> <<Converted(requestId, S_prompts)>>,
                  err |-> <<[kind |-> "converted", text |-> S_prompts_list]>>,
                  path |-> "substitute"]
       ELSE IF IsMethodNotFound(response) /\ ToBoolean(request)
                 /\ StrictEq(method, JStr(S_resources_list))
            THEN [exit |-> "return", out |-> <<Converted(requestId, S_resources)>>,
                  err |-> <<[kind |-> "converted", text |-> S_resources_list]>>,
                  path |-> "substitute"]
       ELSE [exit |-> "fallthrough", out |-> <<>>, err |-> <<>>, path |-> "none"]

\* The handler with a catch clause for the SyntaxError of JSON.parse alone: a
\* TypeError leaves the handler.
OnEndCatchSyntaxErrorOnly(request, data) ==
    LET r == TryBlock(request, data)
    IN IF r.exit = "return"
       THEN [out |-> r.out, err |-> r.err, path |-> r.path, uncaught |-> FALSE]
       ELSE IF r.exit = "throw" /\ JSONparse(data).ok
       THEN [out |-> <<>>, err |-> <<>>, path |-> "none", uncaught |-> TRUE]
       ELSE [out |-> <<data>>,
             err |-> IF r.exit = "throw"
                     THEN <<[kind |-> "parse error", text |-> <<>>]>> ELSE <<>>,
             path |-> "passthrough", uncaught |-> FALSE]

\* The whole 'end' handler: the try block, the catch clause, and the
\* console.log(data) that follows them.  uncaught: an exception left the handler.
OnEnd(request, data) ==
    LET r == TryBlock(request, data)
    IN IF r.exit = "return"
       THEN [out |-> r.out, err |-> r.err, path |-> r.path, uncaught |-> FALSE]
       ELSE [out |-> <<data>>,
             err |-> IF r.exit = "throw"
                     THEN <<[kind |-> "parse error", text |-> <<>>]>> ELSE <<>>,
             path |-> "passthrough", uncaught |-> FALSE]

\* The bytes of a sequence of chunks, in order.
RECURSIVE Concat(_)
Concat(chunks) == IF chunks = <<>> THEN <<>> ELSE Head(chunks) \o Concat(Tail(chunks))

\* The string that data += chunk builds from chunks, each converted by itself.
RECURSIVE DecodeChunks(_)
DecodeChunks(chunks) ==
    IF chunks = <<>> THEN <<>> ELSE Utf8Decode(Head(chunks)) \o DecodeChunks(Tail(chunks))

Running == proc.st = "running"

InFlight(i) == reqs[i].st \in {"sent", "receiving"}

StdoutWrites(i, strs) == [j \in 1..Len(strs) |-> [req |-> i, bytes |-> ConsoleLog(strs[j])]]
StderrWrites(i, errs) == [j \in 1..Len(errs) |-> [kind |-> errs[j].kind, req |-> i, text |-> errs[j].text]]

\* A 'line' handler that takes the next line only when no request is in flight
\* (readline paused while a POST is outstanding).
ReadLineOneAtATime(bytes) ==
    LET line    == Utf8Decode(bytes)
        parsed  == JSONparse(line)
        request == IF parsed.ok THEN parsed.v ELSE Undefined
    IN /\ Running
       /\ rlOpen
       /\ \A i \in 1..Len(reqs) : ~InFlight(i)
       /\ input' = Append(input, bytes)
       /\ IF IsBlank(line)
          THEN UNCHANGED <<posts, reqs>>
          ELSE /\ posts' = Append(posts, [line |-> Len(input) + 1,
                                          body |-> Utf8Encode(line),
                                          contentLength |-> ByteLength(line)])
               /\ reqs' = Append(reqs, [request |-> request, st |-> "sent",
                                        body |-> <<>>, chunks |-> <<>>,
                                        pending |-> <<>>, data |-> <<>>,
                                        path |-> "none", afterClose |-> FALSE])
       /\ UNCHANGED <<stdout, stderr, rlOpen, proc>>

\* rl.on('line'): readline hands over the next line of stdin, decoded.
ReadLine(bytes) ==
    LET line    == Utf8Decode(bytes)
        parsed  == JSONparse(line)
        request == IF parsed.ok THEN parsed.v ELSE Undefined
    IN /\ Running
       /\ rlOpen
       /\ input' = Append(input, bytes)
       /\ IF IsBlank(line)
          THEN UNCHANGED <<posts, reqs>>
          ELSE /\ posts' = Append(posts, [line |-> Len(input) + 1,
                                          body |-> Utf8Encode(line),
                                          contentLength |-> ByteLength(line)])
               /\ reqs' = Append(reqs, [request |-> request, st |-> "sent",
                                        body |-> <<>>, chunks |-> <<>>,
                                        pending |-> <<>>, data |-> <<>>,
                                        path |-> "none", afterClose |-> FALSE])
       /\ UNCHANGED <<stdout, stderr, rlOpen, proc>>

\* The response callback: the status line and headers of the response to POST i
\* have arrived; chunks is the body the server sends, as the network cuts it.
ResBegin(i, chunks) ==
    /\ Running
    /\ reqs[i].st = "sent"
    /\ reqs' = [reqs EXCEPT ![i].st = "receiving", ![i].pending = chunks, ![i].data = <<>>,
                            ![i].body = Concat(chunks), ![i].chunks = chunks]
    /\ UNCHANGED <<input, posts, stdout, stderr, rlOpen, proc>>

\* A 'data' handler whose buffer is one variable of the process: the chunk
\* lands in the text of every response being received.
ResDataShared(i) ==
    /\ Running
    /\ reqs[i].st = "receiving"
    /\ reqs[i].pending # <<>>
    /\ reqs' = [j \in 1..Len(reqs) |->
                  IF reqs[j].st = "receiving"
                  THEN [reqs[j] EXCEPT !.data = @ \o Utf8Decode(Head(reqs[i].pending)),
                                       !.pending = IF j = i THEN Tail(@) ELSE @]
                  ELSE reqs[j]]
    /\ UNCHANGED <<input, posts, stdout, stderr, rlOpen, proc>>

\* A 'data' handler that forwards each chunk as it comes.
ResDataStreaming(i) ==
    /\ Running
    /\ reqs[i].st = "receiving"
    /\ reqs[i].pending # <<>>
    /\ reqs' = [reqs EXCEPT ![i].data = @ \o Utf8Decode(Head(reqs[i].pending)),
                            ![i].pending = Tail(@)]
    /\ stdout' = stdout \o StdoutWrites(i, <<Utf8Decode(Head(reqs[i].pending))>>)
    /\ UNCHANGED <<input, posts, stderr, rlOpen, proc>>

\* res.on('data'): data += chunk
ResData(i) ==
    /\ Running
    /\ reqs[i].st = "receiving"
    /\ reqs[i].pending # <<>>
    /\ reqs' = [reqs EXCEPT ![i].data = @ \o Utf8Decode(Head(reqs[i].pending)),
                            ![i].pending = Tail(@)]
    /\ UNCHANGED <<input, posts, stdout, stderr, rlOpen, proc>>

\* An 'end' handler whose output is put in the order of the requests: before
\* what was written for later lines.
ResEndInRequestOrder(i) ==
    LET r == OnEnd(reqs[i].request, reqs[i].data)
    IN /\ Running
       /\ reqs[i].st = "receiving"
       /\ reqs[i].pending = <<>>
       /\ reqs' = [reqs EXCEPT ![i].st = "ended", ![i].path = r.path,
                               ![i].afterClose = ~rlOpen]
       /\ stdout' = SelectSeq(stdout, LAMBDA w : w.req < i)
                        \o StdoutWrites(i, r.out)
                        \o SelectSeq(stdout, LAMBDA w : w.req > i)
       /\ stderr' = stderr \o StderrWrites(i, r.err)
       /\ proc' = IF r.uncaught THEN [st |-> "crashed", code |-> 1] ELSE proc
       /\ UNCHANGED <<input, posts, rlOpen>>

\* res.on('end')
ResEnd(i) ==
    LET r == OnEnd(reqs[i].request, reqs[i].data)
    IN /\ Running
       /\ reqs[i].st = "receiving"
       /\ reqs[i].pending = <<>>
       /\ reqs' = [reqs EXCEPT ![i].st = "ended", ![i].path = r.path,
                               ![i].afterClose = ~rlOpen]
       /\ stdout' = stdout \o StdoutWrites(i, r.out)
       /\ stderr' = stderr \o StderrWrites(i, r.err)
       /\ proc' = IF r.uncaught THEN [st |-> "crashed", code |-> 1] ELSE proc
       /\ UNCHANGED <<input, posts, rlOpen>>

\* An error handler that gives up: process.exit(1) after the diagnostic.
ReqErrorFatal(i) ==
    /\ proc.st = "running"
    /\ reqs[i].st \in {"sent", "receiving"}
    /\ reqs' = [reqs EXCEPT ![i].st = "failed"]
    /\ stderr' = Append(stderr, [kind |-> "http error", req |-> i, text |-> <<>>])
    /\ rlOpen' = FALSE
    /\ proc' = [st |-> "exited", code |-> 1]
    /\ UNCHANGED <<input, posts, stdout>>

\* req.on('error'): the request failed before its response completed; no 'end'
\* follows.
ReqError(i) ==
    /\ Running
    /\ InFlight(i)
    /\ reqs' = [reqs EXCEPT ![i].st = "failed"]
    /\ stderr' = Append(stderr, [kind |-> "http error", req |-> i, text |-> <<>>])
    /\ UNCHANGED <<input, posts, stdout, rlOpen, proc>>

\* A proxy that exits when stdin ends: rl.on('close', () => process.exit(0)).
InputCloseExits ==
    /\ Running
    /\ rlOpen
    /\ rlOpen' = FALSE
    /\ proc' = [st |-> "exited", code |-> 0]
    /\ UNCHANGED <<input, posts, reqs, stdout, stderr>>

\* stdin ends: readline closes; nothing listens for 'close'.
InputClose ==
    /\ Running
    /\ rlOpen
    /\ rlOpen' = FALSE
    /\ UNCHANGED <<input, posts, reqs, stdout, stderr, proc>>

\* Nothing is left to wait for (stdin closed, no request in flight): node exits.
Drain ==
    /\ Running
    /\ ~rlOpen
    /\ \A i \in 1..Len(reqs) : ~InFlight(i)
    /\ proc' = [st |-> "exited", code |-> 0]
    /\ UNCHANGED <<input, posts, reqs, stdout, stderr, rlOpen>>

\* A handler that lets the requests in flight finish before it exits.
SignalAwaitsInFlight(sig) ==
    /\ Running
    /\ \A i \in 1..Len(reqs) : ~InFlight(i)
    /\ rlOpen' = FALSE
    /\ proc' = [st |-> "exited", code |-> 0, signal |-> TRUE]
    /\ UNCHANGED <<input, posts, reqs, stdout, stderr>>

\* process.on('SIGTERM') / process.on('SIGINT'): rl.close(); process.exit(0)
Signal(sig) ==
    /\ Running
    /\ rlOpen' = FALSE
    /\ proc' = [st |-> "exited", code |-> 0, signal |-> TRUE]
    /\ UNCHANGED <<input, posts, reqs, stdout, stderr>>

\* After startup: the URL argument was accepted and the banner written.
Init ==
    /\ input = <<>>
    /\ posts = <<>>
    /\ reqs = <<>>
    /\ stdout = <<>>
    /\ stderr = <<[kind |-> "banner", req |-> 0, text |-> <<>>]>>
    /\ rlOpen = TRUE
    /\ proc = [st |-> "running"]

-----------------------------------------------------------------------------
(* The environment: what the client writes and what the server answers.    *)

L_empty == <<>>
L_spaces == <<32, 9>>                           \* space, tab
L_nbsp == <<194, 160>>                          \* U+00A0
L_notjson == <<110, 111, 116, 32, 106, 115, 111, 110>>   \* not json
L_x == <<120>>                                  \* x (not JSON)
L_eacute == <<195, 169>>                        \* U+00E9 alone (not JSON)
L_null == <<110, 117, 108, 108>>                \* null
L_five == <<53>>                                \* 5
L_zero == <<48>>                                \* 0
L_array == <<91, 49, 93>>                       \* [1]
L_string == <<34, 120, 34>>                     \* "x"
L_emptyobj == <<123, 125>>                      \* {}
\* {"method":"ping"}
L_note_ping == <<123, 34, 109, 101, 116, 104, 111, 100, 34, 58, 34, 112, 105, 110, 103, 34, 125>>
\* {"method":"prompts/list"}
L_note_prompts == <<123, 34, 109, 101, 116, 104, 111, 100, 34, 58, 34, 112, 114, 111, 109, 112, 116, 115, 47, 108, 105, 115, 116, 34, 125>>
\* {"method":"resources/list"}
L_note_resources == <<123, 34, 109, 101, 116, 104, 111, 100, 34, 58, 34, 114, 101, 115, 111, 117, 114, 99, 101, 115, 47, 108, 105, 115, 116, 34, 125>>
\* {"method":{"toString":1}}
L_note_objmethod == <<123, 34, 109, 101, 116, 104, 111, 100, 34, 58, 123, 34, 116, 111, 83, 116, 114, 105, 110, 103, 34, 58, 49, 125, 125>>
\* {"id":7,"method":"prompts/list"}
L_call_prompts == <<123, 34, 105, 100, 34, 58, 55, 44, 34, 109, 101, 116, 104, 111, 100, 34, 58, 34, 112, 114, 111, 109, 112, 116, 115, 47, 108, 105, 115, 116, 34, 125>>
\* {"id":"<U+00E9>","method":"resources/list"}
L_call_resources == <<123, 34, 105, 100, 34, 58, 34, 195, 169, 34, 44, 34, 109, 101, 116, 104, 111, 100, 34, 58, 34, 114, 101, 115, 111, 117, 114, 99, 101, 115, 47, 108, 105, 115, 116, 34, 125>>
\* {"id":null,"method":"prompts/list"}
L_call_prompts_nullid == <<123, 34, 105, 100, 34, 58, 110, 117, 108, 108, 44, 34, 109, 101, 116, 104, 111, 100, 34, 58, 34, 112, 114, 111, 109, 112, 116, 115, 47, 108, 105, 115, 116, 34, 125>>
\* {"id":{"a":[1]},"method":"resources/list"}
L_call_resources_objid == <<123, 34, 105, 100, 34, 58, 123, 34, 97, 34, 58, 91, 49, 93, 125, 44, 34, 109, 101, 116, 104, 111, 100, 34, 58, 34, 114, 101, 115, 111, 117, 114, 99, 101, 115, 47, 108, 105, 115, 116, 34, 125>>
\* {"id":3,"method":"tools/call"}
L_call_tools == <<123, 34, 105, 100, 34, 58, 51, 44, 34, 109, 101, 116, 104, 111, 100, 34, 58, 34, 116, 111, 111, 108, 115, 47, 99, 97, 108, 108, 34, 125>>
\* {"id":3,"method":"prompts/lists"}
L_call_nearmiss == <<123, 34, 105, 100, 34, 58, 51, 44, 34, 109, 101, 116, 104, 111, 100, 34, 58, 34, 112, 114, 111, 109, 112, 116, 115, 47, 108, 105, 115, 116, 115, 34, 125>>
\* {"id":3}
L_call_nomethod == <<123, 34, 105, 100, 34, 58, 51, 125>>
\* {"id":1,"method":"prompts/list"}
L_call_1 == <<123, 34, 105, 100, 34, 58, 49, 44, 34, 109, 101, 116, 104, 111, 100, 34, 58, 34, 112, 114, 111, 109, 112, 116, 115, 47, 108, 105, 115, 116, 34, 125>>
\* {"id":2,"method":"resources/list"}
L_call_2 == <<123, 34, 105, 100, 34, 58, 50, 44, 34, 109, 101, 116, 104, 111, 100, 34, 58, 34, 114, 101, 115, 111, 117, 114, 99, 101, 115, 47, 108, 105, 115, 116, 34, 125>>

\* {"error":{"code":-32601}}
B_notfound == <<123, 34, 101, 114, 114, 111, 114, 34, 58, 123, 34, 99, 111, 100, 101, 34, 58, 45, 51, 50, 54, 48, 49, 125, 125>>
\* {"error":{"code":-32601,"message":"<U+00E9>"}}
B_notfound_msg == <<123, 34, 101, 114, 114, 111, 114, 34, 58, 123, 34, 99, 111, 100, 101, 34, 58, 45, 51, 50, 54, 48, 49, 44, 34, 109, 101, 115, 115, 97, 103, 101, 34, 58, 34, 195, 169, 34, 125, 125>>
\* {"error":{"code":-32601}} and a line feed
B_notfound_nl == <<123, 34, 101, 114, 114, 111, 114, 34, 58, 123, 34, 99, 111, 100, 101, 34, 58, 45, 51, 50, 54, 48, 49, 125, 125, 10>>
\* {"error":{"code":-32600}}
B_invalid_request == <<123, 34, 101, 114, 114, 111, 114, 34, 58, 123, 34, 99, 111, 100, 101, 34, 58, 45, 51, 50, 54, 48, 48, 125, 125>>
\* {"error":{"code":"-32601"}}
B_code_string == <<123, 34, 101, 114, 114, 111, 114, 34, 58, 123, 34, 99, 111, 100, 101, 34, 58, 34, 45, 51, 50, 54, 48, 49, 34, 125, 125>>
\* {"error":null}
B_error_null == <<123, 34, 101, 114, 114, 111, 114, 34, 58, 110, 117, 108, 108, 125>>
\* {"error":"x"}
B_error_string == <<123, 34, 101, 114, 114, 111, 114, 34, 58, 34, 120, 34, 125>>
\* {"error":-32601}
B_error_number == <<123, 34, 101, 114, 114, 111, 114, 34, 58, 45, 51, 50, 54, 48, 49, 125>>
\* {"result":{}}
B_result == <<123, 34, 114, 101, 115, 117, 108, 116, 34, 58, 123, 125, 125>>
\* {"result":"<U+00E9>"}
B_result_eacute == <<123, 34, 114, 101, 115, 117, 108, 116, 34, 58, 34, 195, 169, 34, 125>>
\* { LF "result":1 LF }
B_result_pretty == <<123, 10, 34, 114, 101, 115, 117, 108, 116, 34, 58, 49, 10, 125>>
B_null == <<110, 117, 108, 108>>                \* null
B_number == <<55>>                              \* 7
B_array == <<91, 93>>                           \* []
B_string == <<34, 195, 169, 34>>                \* "<U+00E9>"
B_empty == <<>>
B_html == <<60, 104, 116, 109, 108, 62>>        \* <html>
B_badutf8 == <<255>>                            \* a byte that is not UTF-8

\* The number of lines the client writes.
MaxLines == 2

\* A response body is cut into two chunks after any of its first MaxCut bytes,
\* or inside a multi-byte character; or it arrives whole.
MaxCut == 1

Cuts(body) ==
    {k \in 1..(Len(body) - 1) : k <= MaxCut \/ body[k] >= 192}

\* The ways the network delivers a body: no 'data' event for an empty body.
Chunkings(body) ==
    (IF body = <<>> THEN {<<>>} ELSE {<<body>>})
        \cup {<<SubSeq(body, 1, k), SubSeq(body, k + 1, Len(body))>> : k \in Cuts(body)}

BlankLines == {L_empty, L_spaces, L_nbsp}

AllLines ==
    BlankLines \cup
    {L_notjson, L_x, L_eacute, L_null, L_five, L_zero, L_array, L_string, L_emptyobj,
     L_note_ping, L_note_prompts, L_note_resources, L_note_objmethod,
     L_call_prompts, L_call_resources, L_call_prompts_nullid, L_call_resources_objid,
     L_call_tools, L_call_nearmiss, L_call_nomethod, L_call_1, L_call_2}

AllBodies ==
    {B_notfound, B_notfound_msg, B_notfound_nl, B_invalid_request, B_code_string,
     B_error_null, B_error_string, B_error_number, B_result, B_result_eacute,
     B_result_pretty, B_null, B_number, B_array, B_string, B_empty, B_html, B_badutf8}

AllResponses == UNION {Chunkings(body) : body \in AllBodies}

CoreLines == {L_spaces, L_call_1, L_eacute}

CoreResponses == {<<B_notfound>>, <<<<34, 195>>, <<169, 34>>>>}

\* The pipeline: up to MaxLines lines, any number of them in flight at once.
Next ==
    \/ \E bytes \in CoreLines : Len(input) < MaxLines /\ ReadLine(bytes)
    \/ \E i \in 1..Len(reqs) : \E chunks \in CoreResponses : ResBegin(i, chunks)
    \/ \E i \in 1..Len(reqs) : ResData(i)
    \/ \E i \in 1..Len(reqs) : ResEnd(i)
    \/ \E i \in 1..Len(reqs) : ReqError(i)
    \/ InputClose
    \/ Drain
    \/ \E sig \in {"SIGTERM", "SIGINT"} : Signal(sig)

Spec == Init /\ [][Next]_vars

\* The pipeline when every request in flight is answered or fails in the end
\* (one that stays in flight sees its 'error' event), and node exits once
\* nothing is left to wait for.
SomeReqError == \E i \in 1..Len(reqs) : ReqError(i)

SpecLive == Init /\ [][Next]_vars /\ WF_vars(SomeReqError) /\ WF_vars(Drain)

\* One exchange: the first line the client writes and the answer to it, over
\* every line and every response of the catalogue.
NextExchange ==
    \/ \E bytes \in AllLines : input = <<>> /\ ReadLine(bytes)
    \/ \E i \in 1..Len(reqs) : \E chunks \in AllResponses : ResBegin(i, chunks)
    \/ \E i \in 1..Len(reqs) : ResData(i)
    \/ \E i \in 1..Len(reqs) : ResEnd(i)
    \/ \E i \in 1..Len(reqs) : ReqError(i)
    \/ InputClose
    \/ Drain
    \/ \E sig \in {"SIGTERM", "SIGINT"} : Signal(sig)

SpecExchange == Init /\ [][NextExchange]_vars

-----------------------------------------------------------------------------
(* What the claims speak of.                                               *)

Ended(i) == reqs[i].st = "ended"

\* The writes request i made to stdout, and their bytes in order.
WritesOf(i) == SelectSeq(stdout, LAMBDA w : w.req = i)
RECURSIVE BytesOfWrites(_)
BytesOfWrites(ws) == IF ws = <<>> THEN <<>> ELSE Head(ws).bytes \o BytesOfWrites(Tail(ws))
OutputOf(i) == BytesOfWrites(WritesOf(i))

\* The input line request i was read from parsed as JSON.
LineParsed(i) == reqs[i].request # Undefined

\* The request carries an id field / a method field equal to name.
HasId(i) == HasOwn(reqs[i].request, S_id)
MethodIs(i, name) ==
    HasOwn(reqs[i].request, S_method) /\ Get(reqs[i].request, S_method) = JStr(name)

\* The response body the server sent for request i, read as one text.
ResponseOf(i) == JSONparse(Utf8Decode(reqs[i].body))

\* That body parses as JSON and has error.code = -32601.
NotFoundResponse(i) ==
    LET r == ResponseOf(i)
    IN /\ r.ok
       /\ HasOwn(r.v, S_error)
       /\ HasOwn(Get(r.v, S_error), S_code)
       /\ Get(Get(r.v, S_error), S_code) = JNum(0 - 32601)

\* Equality of JSON values, whatever the order of an object's members.
RECURSIVE JsonEq(_, _)
JsonEq(x, y) ==
    /\ x.t = y.t
    /\ CASE x.t = "arr" ->
              /\ Len(x.a) = Len(y.a)
              /\ \A j \in 1..Len(x.a) : JsonEq(x.a[j], y.a[j])
         [] x.t = "obj" ->
              /\ Len(x.k) = Len(y.k)
              /\ \A j \in 1..Len(x.k) :
                    /\ HasOwn(y, x.k[j])
                    /\ JsonEq(x.v[j], Get(y, x.k[j]))
         [] OTHER -> x = y

\* The success response with the id of request i and an empty list under listName.
EmptyListResponse(i, listName) ==
    JObj(<<S_jsonrpc, S_id, S_result>>,
         <<JStr(S_2_0), Get(reqs[i].request, S_id), JObj(<<listName>>, <<JArr(<<>>)>>)>>)

\* bytes is one line: text that holds no line feed, and a line feed after it.
IsOneLine(bytes) ==
    /\ bytes # <<>>
    /\ bytes[Len(bytes)] = 10
    /\ \A j \in 1..(Len(bytes) - 1) : bytes[j] # 10

\* bytes is one line whose text is JSON for the value x.
IsLineOfJson(bytes, x) ==
    /\ IsOneLine(bytes)
    /\ LET r == JSONparse(Utf8Decode(SubSeq(bytes, 1, Len(bytes) - 1)))
       IN r.ok /\ JsonEq(r.v, x)

-----------------------------------------------------------------------------
(* C1.  Notification suppression: when the line parsed to a request with no *)
(* id field and the response has error.code = -32601, nothing is written   *)
(* to stdout for that line, whatever the request's method.                 *)
C1_NotificationSuppressed ==
    \A i \in 1..Len(reqs) :
        (Ended(i) /\ LineParsed(i) /\ ~HasId(i) /\ NotFoundResponse(i))
            => OutputOf(i) = <<>>

(* C2.  Empty-list substitution: a request with an id whose method is       *)
(* exactly prompts/list (resources/list) and whose response has error.code *)
(* = -32601 gets exactly one output line, JSON equal to                     *)
(* {"jsonrpc":"2.0","id":<its id>,"result":{"prompts":[]}} ({"resources":   *)
(* []}); the server's error body is not written.                           *)
C2_EmptyListSubstitution ==
    \A i \in 1..Len(reqs) :
        (Ended(i) /\ HasId(i) /\ NotFoundResponse(i)) =>
            /\ MethodIs(i, S_prompts_list) =>
                  /\ Len(WritesOf(i)) = 1
                  /\ IsLineOfJson(OutputOf(i), EmptyListResponse(i, S_prompts))
            /\ MethodIs(i, S_resources_list) =>
                  /\ Len(WritesOf(i)) = 1
                  /\ IsLineOfJson(OutputOf(i), EmptyListResponse(i, S_resources))

C2_Witness ==
    \E i \in 1..Len(reqs) :
        /\ Ended(i) /\ HasId(i) /\ NotFoundResponse(i)
        /\ MethodIs(i, S_resources_list)
        /\ Get(reqs[i].request, S_id).t = "str"
        /\ OutputOf(i) # <<>>

(* C3.  Pass-through identity: when the response body has no error field,   *)
(* or an error.code other than -32601, or is not JSON at all, the bytes     *)
(* written to stdout for the line are the bytes of the response body (and   *)
(* the line feed that ends the line), for every request.                    *)
C3_PassThroughIdentity ==
    \A i \in 1..Len(reqs) :
        (Ended(i) /\ ~NotFoundResponse(i)) => OutputOf(i) = reqs[i].body \o <<10>>

(* C4.  Methods off the allow-list are never rewritten: a request with an   *)
(* id whose method is neither prompts/list nor resources/list has a         *)
(* response with error.code = -32601 written to stdout verbatim, neither    *)
(* dropped nor replaced.                                                    *)
C4_OtherMethodsVerbatim ==
    \A i \in 1..Len(reqs) :
        (Ended(i) /\ HasId(i) /\ NotFoundResponse(i)
            /\ ~MethodIs(i, S_prompts_list) /\ ~MethodIs(i, S_resources_list))
            => OutputOf(i) = reqs[i].body \o <<10>>

(* C5.  Malformed input tolerance: a non-blank line that is not JSON causes *)
(* exactly one POST with the line as body, and whatever the server answers  *)
(* is passed through: no rule (Drop, Substitute) matches it, also when the  *)
(* response has error.code = -32601.                                        *)
C5_MalformedLinePassedThrough ==
    \A i \in 1..Len(reqs) :
        ~LineParsed(i) =>
            /\ Len(posts) = 1
            /\ posts[i].body = input[posts[i].line]
            /\ Ended(i) =>
                  /\ reqs[i].path = "passthrough"
                  /\ WritesOf(i) = <<[req |-> i, bytes |-> ConsoleLog(reqs[i].data)]>>

(* C6.  One request per line: the POSTs issued are, in order, one for each  *)
(* non-blank line read, the body of each being the bytes of its line and    *)
(* Content-Length their number; none is issued twice; a blank or            *)
(* whitespace-only line causes no POST, no output and no diagnostic.        *)
SpaceOnly(bytes) == \A j \in 1..Len(bytes) : bytes[j] \in {32, 9}

NonBlankBefore(k) == Cardinality({m \in 1..k : ~SpaceOnly(input[m])})

C6_OnePostPerLine ==
    /\ Len(posts) = NonBlankBefore(Len(input))
    /\ Len(reqs) = Len(posts)
    /\ \A i \in 1..Len(posts) :
          /\ ~SpaceOnly(input[posts[i].line])
          /\ NonBlankBefore(posts[i].line) = i
          /\ posts[i].body = input[posts[i].line]
          /\ posts[i].contentLength = Len(input[posts[i].line])
    /\ \A j \in 1..Len(stdout) : stdout[j].req \in 1..Len(posts)
    /\ \A j \in 2..Len(stderr) : stderr[j].req \in 1..Len(posts)

C6_Witness ==
    /\ \E k \in 1..Len(input) : SpaceOnly(input[k])
    /\ \E i \in 1..Len(posts) :
          /\ \E j \in 1..Len(posts[i].body) : posts[i].body[j] >= 128
          /\ reqs[i].st = "failed"

(* C7.  Output cardinality: every line read has produced at most one output *)
(* line; Drop writes no byte to stdout, Substitute and PassThrough write    *)
(* exactly one line ended by a line feed, whatever the response body.       *)
C7_AtMostOneOutputLine ==
    \A i \in 1..Len(reqs) :
        /\ reqs[i].path \in {"none", "drop"} => OutputOf(i) = <<>>
        /\ reqs[i].path \in {"substitute", "passthrough"} => IsOneLine(OutputOf(i))

(* C8.  Stream separation: every line written to stdout is a response body  *)
(* received from the server, verbatim, or the success response of a         *)
(* Substitute; banner, notes and errors go to stderr only.                   *)
C8_StdoutCarriesOnlyResponses ==
    \A j \in 1..Len(stdout) :
        LET i == stdout[j].req
        IN \/ stdout[j].bytes = reqs[i].body \o <<10>>
           \/ /\ reqs[i].path = "substitute"
              /\ \/ IsLineOfJson(stdout[j].bytes, EmptyListResponse(i, S_prompts))
                 \/ IsLineOfJson(stdout[j].bytes, EmptyListResponse(i, S_resources))

(* C9.  A transport failure is not fatal and leaves stdout alone: when the  *)
(* POST of a line fails, a diagnostic goes to stderr, no output line is     *)
(* ever written for the line, the request is not sent again, and nothing    *)
(* else changes: the other requests, the input and the process go on as     *)
(* they were.                                                               *)
C9_FailureStep ==
    \A i \in 1..Len(reqs) :
        (reqs[i].st # "failed" /\ reqs'[i].st = "failed") =>
            /\ stderr' = Append(stderr, [kind |-> "http error", req |-> i, text |-> <<>>])
            /\ stdout' = stdout
            /\ posts' = posts
            /\ input' = input
            /\ rlOpen' = rlOpen
            /\ proc' = proc
            /\ Len(reqs') = Len(reqs)
            /\ \A j \in 1..Len(reqs) : j # i => reqs'[j] = reqs[j]

C9_AfterFailure ==
    \A i \in 1..Len(reqs) :
        reqs[i].st = "failed" =>
            /\ OutputOf(i) = <<>>
            /\ \E j \in 1..Len(stderr) : stderr[j].kind = "http error" /\ stderr[j].req = i
            /\ Cardinality({p \in 1..Len(posts) : posts[p].line = posts[i].line}) = 1
            /\ proc.st # "crashed"

C9_TransportFailureContained ==
    [][C9_FailureStep
       /\ C9_AfterFailure'
       /\ \A i \in 1..Len(reqs) : reqs[i].st = "failed" => reqs'[i].st = "failed"]_vars

C9_Witness ==
    /\ Len(reqs) = 2
    /\ reqs[1].st = "failed"
    /\ reqs[2].st = "ended"
    /\ OutputOf(2) # <<>>

(* C10.  The translation step is total: for every line (not JSON, or any    *)
(* JSON value) and every response body (not JSON, or any JSON value, with   *)
(* any error member), the 'end' handler finishes as exactly one of Drop,    *)
(* Substitute, PassThrough, nothing escapes it, and the proxy goes on       *)
(* reading lines.                                                           *)
C10_TranslationTotal ==
    [][\A i \in 1..Len(reqs) :
          (reqs[i].st = "receiving" /\ reqs'[i].st = "ended") =>
             /\ reqs'[i].path \in {"drop", "substitute", "passthrough"}
             /\ reqs'[i].path = "drop" => stdout' = stdout
             /\ reqs'[i].path \in {"substitute", "passthrough"} =>
                   /\ Len(stdout') = Len(stdout) + 1
                   /\ SubSeq(stdout', 1, Len(stdout)) = stdout
                   /\ stdout'[Len(stdout')].req = i
             /\ proc' = proc /\ proc.st = "running"
             /\ rlOpen' = rlOpen
             /\ input' = input /\ posts' = posts
             /\ Len(reqs') = Len(reqs)
             /\ \A j \in 1..Len(reqs) : j # i => reqs'[j] = reqs[j]]_vars

C10_Witness ==
    \E i \in 1..Len(reqs) :
        /\ Ended(i)
        /\ ~LineParsed(i)
        /\ ResponseOf(i).ok /\ ResponseOf(i).v = JNull
        /\ reqs[i].path = "passthrough"
        /\ Running /\ rlOpen

(* C11.  Termination signals: in every state where the proxy runs, also   *)
(* with requests in flight, SIGTERM and SIGINT are taken; the step ends    *)
(* the process with exit status 0 and closes the input, and changes        *)
(* nothing else; once the process has ended no line is read, no POST is    *)
(* issued, nothing is written and no response in flight is completed.      *)
Signals == {"SIGTERM", "SIGINT"}

C11_SignalStep ==
    \A sig \in Signals :
        Signal(sig) =>
            /\ proc'.st = "exited" /\ proc'.code = 0
            /\ rlOpen' = FALSE
            /\ input' = input /\ posts' = posts /\ reqs' = reqs
            /\ stdout' = stdout /\ stderr' = stderr

C11_TerminationSignals ==
    /\ [](Running => \A sig \in Signals : ENABLED Signal(sig))
    /\ [][C11_SignalStep /\ (proc.st = "exited" => UNCHANGED vars)]_vars

C11_Witness ==
    /\ proc.st = "exited" /\ proc.code = 0
    /\ ~rlOpen
    /\ Len(input) < MaxLines
    /\ \E i \in 1..Len(reqs) : reqs[i].st = "receiving" /\ reqs[i].data # <<>>

(* C12.  Rule order: the drop is tried before the conversions.  A request  *)
(* with no id field whose method is exactly prompts/list or resources/list *)
(* and whose response has error.code = -32601 is dropped: nothing is       *)
(* written to stdout for it, no empty-list response is made, and the only  *)
(* note is that of the drop.                                               *)
NotesOf(i) == SelectSeq(stderr, LAMBDA e : e.req = i)

C12_DropBeforeSubstitute ==
    \A i \in 1..Len(reqs) :
        (Ended(i) /\ LineParsed(i) /\ ~HasId(i) /\ NotFoundResponse(i)
            /\ (MethodIs(i, S_prompts_list) \/ MethodIs(i, S_resources_list))) =>
            /\ reqs[i].path = "drop"
            /\ WritesOf(i) = <<>>
            /\ Len(NotesOf(i)) = 1
            /\ NotesOf(i)[1].kind = "dropped"

C12_Witness ==
    /\ \E i \in 1..Len(reqs) :
          /\ Ended(i) /\ ~HasId(i) /\ NotFoundResponse(i)
          /\ MethodIs(i, S_resources_list)
          /\ reqs[i].path = "drop"
          /\ Len(reqs[i].chunks) = 2
    /\ stdout = <<>>

(* C13.  The decision waits for the complete body: while the response of   *)
(* a request has not completed, nothing is written to stdout for it and no *)
(* note of the translation is made; 'end' comes when every chunk has been  *)
(* taken, the decision is made then, once, on all of them; a request leaves *)
(* the in-flight state only by 'end' or by failing, so one that does       *)
(* neither never has an output line.                                       *)
TranslationNotes(i) ==
    SelectSeq(stderr, LAMBDA e : e.req = i /\ e.kind \in {"dropped", "converted", "parse error"})

C13_SilentUntilEnd ==
    \A i \in 1..Len(reqs) :
        ~Ended(i) => (WritesOf(i) = <<>> /\ TranslationNotes(i) = <<>>)

C13_EndStep ==
    \A i \in 1..Len(reqs) :
        /\ (InFlight(i) /\ ~InFlight(i)') =>
               \/ reqs'[i].st = "failed"
               \/ /\ reqs'[i].st = "ended"
                  /\ reqs[i].st = "receiving"
                  /\ reqs[i].pending = <<>>
                  /\ reqs[i].data = DecodeChunks(reqs[i].chunks)
                  /\ stdout' = stdout \o
                        StdoutWrites(i, OnEnd(reqs[i].request, DecodeChunks(reqs[i].chunks)).out)
        /\ ~InFlight(i) =>
               /\ reqs'[i] = reqs[i]
               /\ WritesOf(i)' = WritesOf(i)
               /\ TranslationNotes(i)' = TranslationNotes(i)

C13_CompleteBodyBeforeDecision ==
    []C13_SilentUntilEnd /\ [][C13_EndStep]_vars

C13_Witness ==
    \E i, j \in 1..Len(reqs) :
        /\ Ended(i) /\ Len(reqs[i].chunks) = 2 /\ WritesOf(i) # <<>>
        /\ reqs[j].st = "receiving" /\ reqs[j].pending = <<>> /\ reqs[j].data # <<>>
        /\ WritesOf(j) = <<>>

(* C14.  Isolation of requests in flight together: however the chunks of   *)
(* several responses interleave, the text a request holds is the           *)
(* concatenation, in order, of the chunks of its own response taken so     *)
(* far; the decision is made on all of them and on the request parsed from *)
(* its own input line, and what is written for it (the id of a converted   *)
(* response included) is what that line and that response alone give.      *)
RequestOfLine(bytes) ==
    LET parsed == JSONparse(Utf8Decode(bytes))
    IN IF parsed.ok THEN parsed.v ELSE Undefined

OwnDecision(i) ==
    OnEnd(RequestOfLine(input[posts[i].line]), DecodeChunks(reqs[i].chunks))

C14_Step ==
    \A i \in 1..Len(reqs') :
        /\ i > Len(reqs) => reqs'[i].request = RequestOfLine(input'[posts'[i].line])
        /\ i <= Len(reqs) =>
              /\ reqs'[i].request = reqs[i].request
              /\ posts'[i] = posts[i]
              /\ input'[posts[i].line] = input[posts[i].line]
              /\ reqs[i].st # "sent" => reqs'[i].chunks = reqs[i].chunks
              /\ reqs'[i] = reqs[i] => WritesOf(i)' = WritesOf(i)
              /\ (reqs'[i] # reqs[i] /\ reqs'[i].st \in {"receiving", "ended"}) =>
                    /\ Concat(reqs'[i].chunks) = reqs'[i].body
                    /\ reqs'[i].data \o DecodeChunks(reqs'[i].pending)
                          = DecodeChunks(reqs'[i].chunks)
              /\ (reqs[i].st # "ended" /\ reqs'[i].st = "ended") =>
                    /\ reqs'[i].pending = <<>>
                    /\ reqs'[i].path = OwnDecision(i).path
                    /\ stdout' = stdout \o StdoutWrites(i, OwnDecision(i).out)
                    /\ stderr' = stderr \o StderrWrites(i, OwnDecision(i).err)

C14_PerRequestIsolation == [][C14_Step]_vars

C14_Witness ==
    /\ Len(reqs) = 2
    /\ Ended(1) /\ Ended(2)
    /\ reqs[1].request # reqs[2].request
    /\ reqs[1].path = "substitute" /\ reqs[2].path = "passthrough"
    /\ Len(reqs[2].chunks) = 2
    /\ Len(stdout) = 2 /\ stdout[1].req = 2 /\ stdout[2].req = 1

(* C15.  The reader is not held back by requests in flight: in every state *)
(* where the proxy runs and stdin is open, the next line, whichever it is, *)
(* can be read and (if not blank) posted, however many requests are in     *)
(* flight; reading it leaves those requests as they are, so K lines can    *)
(* have K requests in flight together.                                     *)
\* Lines the reader is offered in every state: a blank one, and one that is posted.
ProbeLines == {L_spaces, L_x}

NumInFlight == Cardinality({i \in 1..Len(reqs) : InFlight(i)})

C15_ReadStep ==
    Len(input') > Len(input) =>
        /\ Len(input') = Len(input) + 1
        /\ SubSeq(reqs', 1, Len(reqs)) = reqs
        /\ ~SpaceOnly(input'[Len(input')]) =>
              /\ Len(posts') = Len(posts) + 1
              /\ Len(reqs') = Len(reqs) + 1
              /\ reqs'[Len(reqs')].st = "sent"
              /\ NumInFlight' = NumInFlight + 1

C15_ReaderNeverBlocked ==
    /\ []((Running /\ rlOpen) => \A bytes \in ProbeLines : ENABLED ReadLine(bytes))
    /\ [][C15_ReadStep]_vars

C15_Witness ==
    /\ Len(input) = MaxLines
    /\ NumInFlight = MaxLines
    /\ \E i \in 1..Len(reqs) : reqs[i].st = "receiving"

(* C16.  Output follows completion, not the order of the requests: what is *)
(* written for a line is appended to stdout in the very step in which its  *)
(* response completes, after everything written before, and stdout changes *)
(* in no other step; nothing is held back or put in the order of the       *)
(* lines, so a line read later can have its output earlier.                *)
C16_Step ==
    /\ stdout' # stdout =>
          \E i \in 1..Len(reqs) :
              /\ reqs[i].st = "receiving" /\ reqs'[i].st = "ended"
              /\ WritesOf(i) = <<>>
              /\ stdout' = stdout \o WritesOf(i)'
    /\ \A i \in 1..Len(reqs) :
          (reqs[i].st # "ended" /\ reqs'[i].st = "ended"
              /\ reqs'[i].path \in {"substitute", "passthrough"}) =>
              /\ Len(stdout') = Len(stdout) + 1
              /\ stdout'[Len(stdout')].req = i

C16_OutputInCompletionOrder == [][C16_Step]_vars

C16_Witness ==
    \E j, k \in 1..Len(stdout) :
        /\ j < k
        /\ posts[stdout[j].req].line > posts[stdout[k].req].line
        /\ reqs[stdout[j].req].path = "substitute"
        /\ reqs[stdout[k].req].path = "substitute"

(* C17.  Atomic output lines: the lines of the stdout stream are, one for   *)
(* one and in order, the outputs of the decisions that wrote to it: each   *)
(* line is all that one decision wrote, and no line holds part of what one *)
(* decision wrote, alone or next to bytes of another.                      *)
RECURSIVE LinesOf(_, _)
LinesOf(bytes, cur) ==
    IF bytes = <<>> THEN (IF cur = <<>> THEN <<>> ELSE <<cur>>)
    ELSE IF Head(bytes) = 10 THEN <<Append(cur, 10)>> \o LinesOf(Tail(bytes), <<>>)
    ELSE LinesOf(Tail(bytes), Append(cur, Head(bytes)))

StdoutLines == LinesOf(BytesOfWrites(stdout), <<>>)

C17_AtomicOutputLines ==
    /\ Len(StdoutLines) = Len(stdout)
    /\ \A j \in 1..Len(stdout) : StdoutLines[j] = stdout[j].bytes

\* What does hold: the bytes one decision wrote stand together in the stream.
C17_WritesContiguous ==
    \A i \in 1..Len(reqs) :
        \A j, k \in 1..Len(stdout) :
            (j < k /\ stdout[j].req = i /\ stdout[k].req = i) =>
                \A m \in j..k : stdout[m].req = i

(* C18.  The end of input does not abandon the requests in flight: once    *)
(* stdin has closed no line is read and no POST issued, yet a response     *)
(* that completes afterwards has its decision made and its output written  *)
(* as before; the process ends by itself only when stdin has closed and no *)
(* request is in flight, with status 0; and if every request in flight is  *)
(* answered or fails in the end, the process does end after stdin closed.  *)
BySignal == "signal" \in DOMAIN proc

C18_Step ==
    /\ ~rlOpen =>
          /\ ~rlOpen'
          /\ input' = input /\ posts' = posts /\ Len(reqs') = Len(reqs)
    /\ \A i \in 1..Len(reqs) :
          (~rlOpen /\ reqs[i].st = "receiving" /\ reqs'[i].st = "ended") =>
              /\ reqs'[i].path = OnEnd(reqs[i].request, reqs[i].data).path
              /\ stdout' = stdout \o StdoutWrites(i, OnEnd(reqs[i].request, reqs[i].data).out)
              /\ Running'
    /\ (Running /\ ~Running' /\ ~BySignal') =>
          /\ ~rlOpen
          /\ \A i \in 1..Len(reqs) : ~InFlight(i)
          /\ proc'.st = "exited" /\ proc'.code = 0

C18_EndOfInputKeepsInFlightWork ==
    /\ [][C18_Step]_vars
    /\ (~rlOpen) ~> (~Running)

C18_Witness ==
    /\ proc.st = "exited" /\ ~BySignal
    /\ \E i \in 1..Len(reqs) :
          /\ Ended(i) /\ reqs[i].afterClose
          /\ WritesOf(i) # <<>>
    /\ \E i \in 1..Len(reqs) : reqs[i].st = "failed"

(* C19.  Method sentinel: the method named in the note of a drop is         *)
(* "unknown" when the input line did not parse and also when it parsed but *)
(* has no method field; when the request has a method string, it is that   *)
(* string.                                                                 *)
C19_MethodSentinel ==
    \A j \in 1..Len(stderr) :
        stderr[j].kind = "dropped" =>
            LET request == reqs[stderr[j].req].request
            IN /\ ~HasOwn(request, S_method) => stderr[j].text = S_unknown
               /\ (HasOwn(request, S_method) /\ Get(request, S_method).t = "str")
                     => stderr[j].text = Get(request, S_method).s

\* What does hold: the sentinel for a line that did not parse (or parsed to a
\* value that counts as false), the method string when there is one.
C19_SentinelWhenNoRequest ==
    \A j \in 1..Len(stderr) :
        stderr[j].kind = "dropped" =>
            LET request == reqs[stderr[j].req].request
            IN /\ ~ToBoolean(request) => stderr[j].text = S_unknown
               /\ (HasOwn(request, S_method) /\ Get(request, S_method).t = "str")
                     => stderr[j].text = Get(request, S_method).s

====
